---------------------------- MODULE Spec2Model ----------------------------
(***************************************************************************)
(* Payment gateway (src/server.js): remote configuration cache, event      *)
(* catalog lookup, checkout amount validation and charge submission.       *)
(*                                                                         *)
(* Two specifications share the definitions below:                         *)
(*   Spec     the server process: startServer, then inbound requests that  *)
(*            interleave at their await points (catalog GET, charge call); *)
(*   SpecCfg  getStripeConfig called any number of times by callers that   *)
(*            may overlap at its await point (the configuration GET).      *)
(*                                                                         *)
(* JavaScript numbers are decimal fixed-point integers: the number x is    *)
(* the integer x * Scale.  Binary floating-point error is not modelled.    *)
(***************************************************************************)
EXTENDS Integers, Sequences, FiniteSets, TLC

VARIABLES
  fetch,          \* SpecFetch: one call of loadConfig / loadEvents, event by event
  env,            \* process.env: the two STRIPE_* variables
  configSource,   \* what the configuration URL serves
  CONFIG,         \* the process-wide configuration cache
  configGets,     \* number of GETs issued by loadConfig (observation)
  configWrites,   \* number of assignments made to CONFIG (observation)
  loadOutcome,    \* how the latest settled configuration GET ended (observation)
  call,           \* SpecCfg: every caller's position in getStripeConfig
  phase,          \* Spec: position of startServer
  stripe,         \* the processor client: the secret key it was built with
  stripePublishableKey, \* app.locals.stripePublishableKey
  catalogSource,  \* what the catalog URL serves at the moment
  req             \* the inbound requests being handled, by connection

vars == <<fetch, env, configSource, CONFIG, configGets, configWrites, loadOutcome, call,
          phase, stripe, stripePublishableKey, catalogSource, req>>

-----------------------------------------------------------------------------
(* Bounds of the model *)

\* callers of getStripeConfig in SpecCfg
MaxCalls == 2

\* cap on the configuration GETs counted in SpecCfg
MaxGets == 3

\* connections on which the server handles requests at the same time
MaxConnections == 1

-----------------------------------------------------------------------------
(* JavaScript values *)

\* fixed-point scale: three fractional decimal digits
Scale == 1000

Num(n) == [t |-> "num", n |-> n]

NaN == [t |-> "nan", n |-> 0]

Undefined == [t |-> "undef", n |-> 0]

\* a string that is not a numeric literal, as a value of a JSON body
NonNumericString == [t |-> "str", n |-> 0]

Digits == {"0", "1", "2", "3", "4", "5", "6", "7", "8", "9"}

DigitChars == <<"0", "1", "2", "3", "4", "5", "6", "7", "8", "9">>

DigitVal(c) == (CHOOSE i \in 1..10 : DigitChars[i] = c) - 1

RECURSIVE DigitRun(_, _)
\* number of consecutive decimal digits of s from position i
DigitRun(s, i) ==
  IF i <= Len(s) /\ s[i] \in Digits THEN 1 + DigitRun(s, i + 1) ELSE 0

RECURSIVE DigitsValue(_, _, _)
\* the integer written by the n digits of s from position i
DigitsValue(s, i, n) ==
  IF n = 0 THEN 0
  ELSE DigitsValue(s, i, n - 1) * 10 + DigitVal(s[i + n - 1])

RECURSIVE Pow10(_)
Pow10(k) == IF k = 0 THEN 1 ELSE 10 * Pow10(k - 1)

RECURSIVE FracValue(_, _, _)
\* the fraction written by the n digits of s from position i, times Scale
FracValue(s, i, n) ==
  IF n = 0 THEN 0
  ELSE FracValue(s, i, n - 1) + (DigitVal(s[i + n - 1]) * Scale) \div Pow10(n)

\* parseFloat(s), for s without exponent and without "Infinity": the longest
\* prefix [+-] digits [. digits] | [+-] . digits, NaN when there is none
parseFloat(s) ==
  LET signed  == Len(s) >= 1 /\ s[1] \in {"+", "-"}
      i0      == IF signed THEN 2 ELSE 1
      intLen  == DigitRun(s, i0)
      dotAt   == i0 + intLen
      hasDot  == dotAt <= Len(s) /\ s[dotAt] = "."
      fracLen == IF hasDot THEN DigitRun(s, dotAt + 1) ELSE 0
      sign    == IF signed /\ s[1] = "-" THEN -1 ELSE 1
  IN IF intLen = 0 /\ fracLen = 0 THEN NaN
     ELSE Num(sign * (DigitsValue(s, i0, intLen) * Scale
                      + FracValue(s, dotAt + 1, fracLen)))

isNaN(x) == x.t # "num"

\* ToNumber on the values a JSON body can give the amount
ToNumber(x) == IF x.t = "num" THEN x ELSE NaN

\* a < b, a <= b, a > b on numbers: false when either side is NaN
Less(a, b) == ToNumber(a).t = "num" /\ ToNumber(b).t = "num" /\ ToNumber(a).n < ToNumber(b).n

LessEq(a, b) == ToNumber(a).t = "num" /\ ToNumber(b).t = "num" /\ ToNumber(a).n <= ToNumber(b).n

Greater(a, b) == Less(b, a)

\* !x on the values a JSON body can give a field
Falsy(x) == x.t \in {"undef", "nan"} \/ (x.t = "num" /\ x.n = 0)

\* x * k for an integer k
Times(x, k) == IF ToNumber(x).t = "num" THEN Num(ToNumber(x).n * k) ELSE NaN

MathRoundMutFloor(x) ==
  IF ToNumber(x).t = "num" THEN Num((ToNumber(x).n \div Scale) * Scale) ELSE NaN

\* Math.round: the nearest integer, a half rounded up
MathRound(x) ==
  IF ToNumber(x).t = "num"
  THEN Num(((ToNumber(x).n + Scale \div 2) \div Scale) * Scale)
  ELSE NaN

IsInteger(x) == x.t = "num" /\ x.n % Scale = 0

-----------------------------------------------------------------------------
(* Remote configuration: loadConfig, getStripeConfig *)

ConfigObject(pub, sec, url) ==
  [t |-> "object", hasStripe |-> (pub # "undef" \/ sec # "undef"),
   publishableKey |-> pub, secretKey |-> sec,
   hasEndpoints |-> url # "undef", eventsUrl |-> url]

\* let CONFIG = null, and a body that is the JSON null
ConfigNull ==
  [t |-> "null", hasStripe |-> FALSE, publishableKey |-> "undef",
   secretKey |-> "undef", hasEndpoints |-> FALSE, eventsUrl |-> "undef"]

\* a body that is a falsy JSON value other than null: 0, false, ""
ConfigFalsy == [ConfigNull EXCEPT !.t = "falsy"]

\* CONFIG = { stripe: {} }
FallbackConfig ==
  [t |-> "object", hasStripe |-> TRUE, publishableKey |-> "undef",
   secretKey |-> "undef", hasEndpoints |-> FALSE, eventsUrl |-> "undef"]

ConfigBodies ==
  { ConfigObject("pk_config", "sk_config", "url_config"),
    ConfigObject("pk_config", "undef", "undef"),
    ConfigObject("undef", "undef", "undef"),
    ConfigFalsy,
    ConfigNull }

\* what the configuration URL serves: a JSON body or text that is not JSON
ConfigSources ==
  [parseable : {TRUE}, value : ConfigBodies]
    \cup {[parseable |-> FALSE, value |-> ConfigNull]}

Envs ==
  [STRIPE_PUBLISHABLE_KEY : {"undef", "pk_env"},
   STRIPE_SECRET_KEY : {"undef", "sk_env"}]

\* how one GET of loadConfig / loadEvents can settle, given the body served
FetchOutcomes(source) ==
  {"neterr"} \cup (IF source.parseable THEN {"ok"} ELSE {"parseerr"})

\* if (!CONFIG)
ConfigUnset(cfg) == cfg.t \in {"null", "falsy"}

\* a || b on keys and URLs
OrElse(a, b) == IF a # "undef" THEN a ELSE b

\* the catch of getStripeConfig
ConfigOnFailureMutRethrow == [thrown |-> TRUE, config |-> ConfigNull]

ConfigOnFailure == [thrown |-> FALSE, config |-> FallbackConfig]

\* CONFIG = await loadConfig() with its catch: the value assigned to CONFIG
\* and whether the error leaves getStripeConfig
ConfigAfterLoad(source, outcome) ==
  IF outcome = "ok"
  THEN [thrown |-> FALSE, config |-> source.value]
  ELSE ConfigOnFailure

StripeKeysMutEnvFirst(cfg, e) ==
  IF cfg.t = "null"
  THEN [threw |-> TRUE, publishableKey |-> "undef", secretKey |-> "undef"]
  ELSE [threw |-> FALSE,
        publishableKey |-> OrElse(e.STRIPE_PUBLISHABLE_KEY,
                             OrElse(cfg.publishableKey, "pk_test_fallback")),
        secretKey |-> OrElse(e.STRIPE_SECRET_KEY,
                        OrElse(cfg.secretKey, "sk_test_fallback"))]

\* the object getStripeConfig returns; CONFIG.stripe throws when CONFIG is null
StripeKeys(cfg, e) ==
  IF cfg.t = "null"
  THEN [threw |-> TRUE, publishableKey |-> "undef", secretKey |-> "undef"]
  ELSE [threw |-> FALSE,
        publishableKey |-> OrElse(cfg.publishableKey,
                             OrElse(e.STRIPE_PUBLISHABLE_KEY, "pk_test_fallback")),
        secretKey |-> OrElse(cfg.secretKey,
                        OrElse(e.STRIPE_SECRET_KEY, "sk_test_fallback"))]

Callers == 1..MaxCalls

\* a caller that has not called yet: no keys returned
IdleCall ==
  [pc |-> "idle", overlapped |-> FALSE,
   keys |-> [threw |-> FALSE, publishableKey |-> "undef", secretKey |-> "undef"]]

\* some caller other than c is at the await of loadConfig
OthersLoading(c) == \E d \in Callers \ {c} : call[d].pc = "loading"

\* a caller enters getStripeConfig: it issues the GET when CONFIG is unset,
\* and returns the keys at once otherwise; overlapped records that the call
\* reached the await while another was there and CONFIG had not been assigned
getStripeConfig(c) ==
  /\ call[c].pc \in {"idle", "returned", "threw"}
  /\ IF ConfigUnset(CONFIG)
     THEN /\ configGets < MaxGets
          /\ configGets' = configGets + 1
          /\ call' = [d \in Callers |->
                        IF d = c
                        THEN [call[c] EXCEPT !.pc = "loading",
                                             !.overlapped = (configWrites = 0 /\ OthersLoading(c))]
                        ELSE IF call[d].pc = "loading" /\ configWrites = 0
                        THEN [call[d] EXCEPT !.overlapped = TRUE]
                        ELSE call[d]]
     ELSE /\ configGets' = configGets
          /\ call' = [call EXCEPT ![c] =
                        [pc |-> "returned", overlapped |-> FALSE,
                         keys |-> StripeKeys(CONFIG, env)]]
  /\ UNCHANGED <<fetch, env, configSource, CONFIG, configWrites, loadOutcome, phase, stripe,
                 stripePublishableKey, catalogSource, req>>

\* the GET of a caller settles: CONFIG is assigned and the keys are returned
loadConfigSettles(c) ==
  /\ call[c].pc = "loading"
  /\ \E outcome \in FetchOutcomes(configSource) :
       LET r == ConfigAfterLoad(configSource, outcome)
           k == StripeKeys(r.config, env)
       IN /\ loadOutcome' = outcome
          /\ CONFIG' = IF r.thrown THEN CONFIG ELSE r.config
          /\ configWrites' = IF r.thrown THEN configWrites ELSE configWrites + 1
          /\ call' = [call EXCEPT ![c] =
                        [@ EXCEPT !.pc = IF r.thrown \/ k.threw THEN "threw" ELSE "returned",
                                  !.keys = k]]
  /\ UNCHANGED <<fetch, env, configSource, configGets, phase, stripe,
                 stripePublishableKey, catalogSource, req>>

-----------------------------------------------------------------------------
(* Startup: startServer, initializeApp *)

\* startServer calls initializeApp, which awaits getStripeConfig
startServer ==
  /\ phase = "boot"
  /\ IF ConfigUnset(CONFIG)
     THEN /\ configGets' = configGets + 1
          /\ phase' = "loadingConfig"
          /\ UNCHANGED <<stripe, stripePublishableKey>>
     ELSE LET k == StripeKeys(CONFIG, env)
          IN /\ configGets' = configGets
             /\ phase' = "listening"
             /\ stripe' = k.secretKey
             /\ stripePublishableKey' = k.publishableKey
  /\ UNCHANGED <<fetch, env, configSource, CONFIG, configWrites, loadOutcome, call,
                 catalogSource, req>>

\* the configuration GET settles: CONFIG is assigned, the processor client is
\* built and the server listens, or the error reaches process.exit(1)
initializeApp ==
  /\ phase = "loadingConfig"
  /\ \E outcome \in FetchOutcomes(configSource) :
       LET r == ConfigAfterLoad(configSource, outcome)
           k == StripeKeys(r.config, env)
       IN /\ loadOutcome' = outcome
          /\ CONFIG' = IF r.thrown THEN CONFIG ELSE r.config
          /\ configWrites' = IF r.thrown THEN configWrites ELSE configWrites + 1
          /\ IF r.thrown \/ k.threw
             THEN /\ phase' = "exited"
                  /\ UNCHANGED <<stripe, stripePublishableKey>>
             ELSE /\ phase' = "listening"
                  /\ stripe' = k.secretKey
                  /\ stripePublishableKey' = k.publishableKey
  /\ UNCHANGED <<fetch, env, configSource, configGets, call, catalogSource, req>>

-----------------------------------------------------------------------------
(* Event catalog: loadEvents and the lookup by eventId *)

DefaultEventsUrl == "url_default"

EventsUrlMutDefault(cfg) == DefaultEventsUrl

\* const url = CONFIG?.endpoints?.eventsUrl || '<default>'
EventsUrl(cfg) ==
  OrElse(IF cfg.t = "object" /\ cfg.hasEndpoints THEN cfg.eventsUrl ELSE "undef",
         DefaultEventsUrl)

EventRecord(id, name, cost) == [eventId |-> id, eventName |-> name, cost |-> cost]

NoEvent == EventRecord("", "", Undefined)

\* the catalog as first served: two events, one priced below the override range
CatalogA ==
  << EventRecord("RS2025ML", "ML Summit", Num(300)),
     EventRecord("RS2025AI", "AI Summit", Num(299 * Scale)) >>

\* the catalog after a change: RS2025ML removed, RS2025AI re-priced above the range
CatalogB == << EventRecord("RS2025AI", "AI Summit", Num(12000 * Scale + 5)) >>

\* what the catalog URL can serve: a JSON array of events, a JSON value that
\* is not an array, or text that is not JSON
CatalogSources ==
  { [parseable |-> TRUE, isArray |-> TRUE, events |-> CatalogA],
    [parseable |-> TRUE, isArray |-> TRUE, events |-> CatalogB],
    [parseable |-> TRUE, isArray |-> FALSE, events |-> << >>],
    [parseable |-> FALSE, isArray |-> FALSE, events |-> << >>] }

EventIds == {"RS2025AI", "RS2025ML"}

RECURSIVE FindFrom(_, _, _)
FindFrom(events, id, i) ==
  IF i > Len(events) THEN NoEvent
  ELSE IF events[i].eventId = id THEN events[i]
  ELSE FindFrom(events, id, i + 1)

FindEventMutFirst(events, id) ==
  IF FindFrom(events, id, 1) = NoEvent /\ Len(events) > 0 THEN events[1]
  ELSE FindFrom(events, id, 1)

\* events.find(e => e.eventId === eventId); NoEvent stands for undefined
FindEvent(events, id) == FindFrom(events, id, 1)

LookupMutEmptyCatalog(source, outcome, id) ==
  IF outcome # "ok" THEN [how |-> "found", event |-> NoEvent]
  ELSE IF ~source.isArray THEN [how |-> "typeError", event |-> NoEvent]
  ELSE [how |-> "found", event |-> FindEvent(source.events, id)]

\* how await loadEvents() followed by events.find(...) ends in a handler:
\* "rejected" (the GET failed or the body is not JSON), "typeError" (the body
\* is JSON but has no find method), or "found" with the event or NoEvent
Lookup(source, outcome, id) ==
  IF outcome # "ok" THEN [how |-> "rejected", event |-> NoEvent]
  ELSE IF ~source.isArray THEN [how |-> "typeError", event |-> NoEvent]
  ELSE [how |-> "found", event |-> FindEvent(source.events, id)]

-----------------------------------------------------------------------------
(* Checkout: GET /payment/:eventId?pay= *)

OverrideMin == 1

OverrideMax == 10000

MinCharge == 50

\* the characters of the strings given as ?pay=
S0 == <<"0">>
Sabc == <<"a", "b", "c">>
S0p5 == <<"0", ".", "5">>
S1 == <<"1">>
S450 == <<"4", "5", "0">>
S10000 == <<"1", "0", "0", "0", "0">>
S10001 == <<"1", "0", "0", "0", "1">>

\* req.query.pay: << >> stands for an absent or empty parameter
PayStrings == {<< >>, S0, Sabc, S0p5, S1, S450, S10000, S10001}

\* the requests for a checkout page: every ?pay= with one event, and the
\* other event without ?pay= and with an accepted one
CheckoutInputs ==
  { [eventId |-> "RS2025AI", customPay |-> pay] : pay \in PayStrings }
    \cup { [eventId |-> "RS2025ML", customPay |-> pay] : pay \in {<< >>, S450} }

\* if (customPay)
Given(customPay) == Len(customPay) > 0

InRangeMutExclusive(customAmount) ==
  Greater(customAmount, Num(OverrideMin * Scale)) /\ Less(customAmount, Num(OverrideMax * Scale))

\* !(customAmount < 1 || customAmount > 10000)
InRange(customAmount) ==
  ~(Less(customAmount, Num(OverrideMin * Scale))
    \/ Greater(customAmount, Num(OverrideMax * Scale)))

\* isNaN(customAmount) || customAmount <= 0
Invalid(customAmount) == isNaN(customAmount) \/ LessEq(customAmount, Num(0))

ResolveAmountMutValidateCost(event, customPay) ==
  LET a == IF Given(customPay) THEN parseFloat(customPay) ELSE event.cost
  IN IF Invalid(a) THEN [outcome |-> "invalidAmount", status |-> 400, eventCost |-> Undefined]
     ELSE IF ~InRange(a) THEN [outcome |-> "outOfRange", status |-> 400, eventCost |-> Undefined]
     ELSE [outcome |-> "page", status |-> 200, eventCost |-> a]

ResolveAmountMutRangeFirst(event, customPay) ==
  IF ~Given(customPay) THEN [outcome |-> "page", status |-> 200, eventCost |-> event.cost]
  ELSE LET customAmount == parseFloat(customPay)
       IN IF ~InRange(customAmount)
          THEN [outcome |-> "outOfRange", status |-> 400, eventCost |-> Undefined]
          ELSE IF Invalid(customAmount)
          THEN [outcome |-> "invalidAmount", status |-> 400, eventCost |-> Undefined]
          ELSE [outcome |-> "page", status |-> 200, eventCost |-> customAmount]

\* the amount the checkout page shows and charges: event.cost, or the
\* override after the parse check and then the range check
ResolveAmount(event, customPay) ==
  IF ~Given(customPay) THEN [outcome |-> "page", status |-> 200, eventCost |-> event.cost]
  ELSE LET customAmount == parseFloat(customPay)
       IN IF Invalid(customAmount)
          THEN [outcome |-> "invalidAmount", status |-> 400, eventCost |-> Undefined]
          ELSE IF ~InRange(customAmount)
          THEN [outcome |-> "outOfRange", status |-> 400, eventCost |-> Undefined]
          ELSE [outcome |-> "page", status |-> 200, eventCost |-> customAmount]

\* the page script's body field  amount: ${eventCost * 100}
PageAmount(eventCost) == Times(eventCost, 100)

-----------------------------------------------------------------------------
(* Charge submission: POST /process-payment *)

\* req.body: the four opaque fields by presence, eventId ("" when absent)
\* and the amount as the JSON value given
Body(token, id, name, email, phone, amount) ==
  [token |-> token, eventId |-> id, name |-> name, email |-> email,
   phone |-> phone, amount |-> amount]

NoBody == Body(FALSE, "", FALSE, FALSE, FALSE, Undefined)

\* amounts a caller can post: absent, 0, 49.6, 50, 99.5, a string that is no
\* number, and 1000001
PostedAmounts ==
  { Undefined, Num(0), Num(49 * Scale + 600), Num(MinCharge * Scale),
    Num(99 * Scale + 500), NonNumericString, Num(1000001 * Scale) }

\* bodies posted directly: complete ones, ones with one field absent, and one
\* with an amount below the minimum for an event no catalog has
PayBodies ==
  { Body(TRUE, "RS2025AI", TRUE, TRUE, TRUE, a) : a \in PostedAmounts }
    \cup { Body(TRUE, "RS2025ML", TRUE, TRUE, TRUE, Num(MinCharge * Scale)),
           Body(FALSE, "RS2025ML", TRUE, TRUE, TRUE, Num(49 * Scale)),
           Body(TRUE, "RS2025XX", TRUE, TRUE, TRUE, Num(49 * Scale)),
           Body(TRUE, "", TRUE, TRUE, TRUE, Num(MinCharge * Scale)),
           Body(TRUE, "RS2025AI", FALSE, TRUE, TRUE, Num(MinCharge * Scale)),
           Body(TRUE, "RS2025AI", TRUE, FALSE, TRUE, Num(MinCharge * Scale)),
           Body(TRUE, "RS2025AI", TRUE, TRUE, FALSE, Num(MinCharge * Scale)) }

MissingFieldsMutNoAmount(body) ==
  ~body.token \/ body.eventId = "" \/ ~body.name \/ ~body.email \/ ~body.phone

\* !token || !eventId || !name || !email || !phone || !amount
MissingFields(body) ==
  ~body.token \/ body.eventId = "" \/ ~body.name \/ ~body.email \/ ~body.phone
    \/ Falsy(body.amount)

\* amount < 50
TooSmall(body) == Less(body.amount, Num(MinCharge * Scale))

\* amount: Math.round(amount)
ChargeAmount(body) == MathRound(body.amount)

Returned(status) ==
  [raised |-> FALSE, status |-> status, id |-> "ch_123",
   receiptUrl |-> "receipt_ch_123", type |-> "", message |-> ""]

Raised(type, message) ==
  [raised |-> TRUE, status |-> "", id |-> "", receiptUrl |-> "",
   type |-> type, message |-> message]

NoCharge == Raised("", "")

\* the processor is a black box: it returns a charge with a status or raises
\* an error with a type and a message; it never accepts an amount that is
\* not an integer
ProcessorOutcomes(amount) ==
  IF IsInteger(amount)
  THEN { Returned("succeeded"), Returned("pending"),
         Raised("StripeCardError", "Your card was declined."),
         Raised("StripeInvalidRequestError", "No such token: tok_1"),
         Raised("StripeAPIError", "upstream timeout"),
         Raised("StripeConnectionError", "ECONNRESET 10.0.0.7") }
  ELSE { Raised("StripeInvalidRequestError", "Invalid integer") }

\* the error a rejected loadEvents or a failed events.find throws: no type
LookupError(how) ==
  Raised("", IF how = "rejected" THEN "catalog fetch failed" ELSE "events.find is not a function")

ErrorMessageMutNoApi(error) ==
  IF error.type = "StripeCardError" THEN error.message
  ELSE IF error.type = "StripeInvalidRequestError" THEN "Invalid payment information"
  ELSE "Payment failed. Please try again."

ErrorMessageMutPassThrough(error) ==
  IF error.type = "StripeCardError" THEN error.message
  ELSE IF error.type = "StripeInvalidRequestError" THEN "Invalid payment information"
  ELSE IF error.type = "StripeAPIError" THEN "Payment service temporarily unavailable"
  ELSE error.message

\* the catch of /process-payment
ErrorMessage(error) ==
  IF error.type = "StripeCardError" THEN error.message
  ELSE IF error.type = "StripeInvalidRequestError" THEN "Invalid payment information"
  ELSE IF error.type = "StripeAPIError" THEN "Payment service temporarily unavailable"
  ELSE "Payment failed. Please try again."

-----------------------------------------------------------------------------
(* Requests and responses *)

\* the connections the server has open
Connections == DOMAIN req

NoResp ==
  [status |-> 0, success |-> FALSE, outcome |-> "", eventCost |-> Undefined,
   amount |-> Undefined, chargeId |-> "", receiptUrl |-> "", error |-> "",
   events |-> << >>, total |-> Undefined, info |-> ""]

\* what a handler has got from await loadEvents(): nothing yet
NotFetched == [outcome |-> "none", isArray |-> FALSE, events |-> << >>]

\* what await loadEvents() gave the handler when the GET settled with outcome:
\* the parsed body as served at that moment, or a rejection
Fetched(source, outcome) ==
  IF outcome = "ok"
  THEN [outcome |-> "ok", isArray |-> source.isArray, events |-> source.events]
  ELSE [NotFetched EXCEPT !.outcome = outcome]

IdleReq ==
  [kind |-> "none", pc |-> "idle", eventId |-> "", customPay |-> << >>,
   body |-> NoBody, origin |-> "", pageCost |-> Undefined, url |-> "",
   gets |-> 0, fetched |-> NotFetched, event |-> NoEvent, charges |-> 0,
   chargeAmount |-> Undefined, charge |-> NoCharge, resp |-> NoResp, sent |-> 0]

FreeMutSerial(s) == phase = "listening" /\ \A t \in Connections : req[t].pc \in {"idle", "done"}

\* the connection s can take a request: the server listens and s has none in flight
Free(s) == phase = "listening" /\ req[s].pc \in {"idle", "done"}

RespondMutBroadcast(s, r) ==
  req' = [t \in Connections |->
            IF t = s \/ req[t].pc \in {"awaitEvents", "awaitCharge"}
            THEN [r EXCEPT !.pc = "done", !.sent = @ + 1]
            ELSE IF req[t].pc = "done" THEN IdleReq ELSE req[t]]

\* the handler of s sends r; the response sent before on another connection
\* is no longer kept
Respond(s, r) ==
  req' = [t \in Connections |->
            IF t = s THEN [r EXCEPT !.pc = "done", !.sent = @ + 1]
            ELSE IF req[t].pc = "done" THEN IdleReq ELSE req[t]]

AwaitEventsMutNoGet(r) == [r EXCEPT !.pc = "awaitEvents", !.url = EventsUrl(CONFIG)]

\* a handler reaches await loadEvents(): one GET to the URL CONFIG gives
AwaitEvents(r) == [r EXCEPT !.pc = "awaitEvents", !.url = EventsUrl(CONFIG), !.gets = @ + 1]

serverVars == <<fetch, env, configSource, CONFIG, configGets, configWrites, loadOutcome,
                call, phase, stripe, stripePublishableKey>>

\* what a handler that has resumed from an await leaves alone besides phase
handlerVars == <<fetch, env, configSource, CONFIG, configGets, configWrites, loadOutcome,
                 call, stripe, stripePublishableKey>>

TryCoversMutFindOutside(kind) ==
  IF kind = "pay" THEN {"loadEvents", "find", "charge"} ELSE {"loadEvents"}

\* the steps of each async handler that run inside its try block: the await
\* of loadEvents, events.find and, in /process-payment, the await of
\* stripe.charges.create
TryCovers(kind) ==
  IF kind = "pay" THEN {"loadEvents", "find", "charge"} ELSE {"loadEvents", "find"}

\* the step of a handler at which a failed lookup throws
ThrowingStep(how) == IF how = "rejected" THEN "loadEvents" ELSE "find"

\* the handler of s sends r (res.send / res.json, once more for this request)
\* and the process goes on
Sends(s, r) == Respond(s, r) /\ phase' = phase

ThrownMutSwallow(s, step, r) ==
  /\ req' = [req EXCEPT ![s] = [r EXCEPT !.pc = "unhandled", !.resp = NoResp]]
  /\ phase' = phase

\* an error is thrown at a step of the handler of s: inside the try the catch
\* sends r; outside it the async handler's promise is rejected with nobody
\* handling it, no response is sent, and the runtime either terminates the
\* process or only warns
Thrown(s, step, r) ==
  IF step \in TryCovers(r.kind)
  THEN Sends(s, r)
  ELSE /\ req' = [req EXCEPT ![s] = [r EXCEPT !.pc = "unhandled", !.resp = NoResp]]
       /\ phase' \in {"listening", "crashed"}

\* GET /payment/:eventId arrives and runs to await loadEvents()
Checkout(s) ==
  /\ Free(s)
  /\ \E in \in CheckoutInputs :
       req' = [req EXCEPT ![s] =
                 AwaitEvents([IdleReq EXCEPT !.kind = "checkout", !.eventId = in.eventId,
                                             !.customPay = in.customPay])]
  /\ UNCHANGED <<serverVars, catalogSource>>

\* the catalog GET of a checkout settles: the 404 page, a 400 page, the
\* checkout page, or the 500 page of the catch
CheckoutResumes(s) ==
  /\ req[s].kind = "checkout" /\ req[s].pc = "awaitEvents"
  /\ \E outcome \in FetchOutcomes(catalogSource) :
       LET l == Lookup(catalogSource, outcome, req[s].eventId)
           a == ResolveAmount(l.event, req[s].customPay)
       IN IF l.how # "found"
          THEN Thrown(s, ThrowingStep(l.how),
               [req[s] EXCEPT !.fetched = Fetched(catalogSource, outcome),
                                         !.resp = [NoResp EXCEPT !.status = 500,
                                                     !.outcome = "loadError"]])
          ELSE IF l.event = NoEvent
          THEN Sends(s, [req[s] EXCEPT !.fetched = Fetched(catalogSource, outcome),
                                         !.resp = [NoResp EXCEPT !.status = 404,
                                                     !.outcome = "notFound"]])
          ELSE Sends(s, [req[s] EXCEPT
                 !.fetched = Fetched(catalogSource, outcome),
                 !.event = l.event,
                 !.resp = [NoResp EXCEPT
                    !.status = a.status, !.outcome = a.outcome,
                    !.success = (a.outcome = "page"),
                    !.eventCost = a.eventCost,
                    !.amount = IF a.outcome = "page" THEN PageAmount(a.eventCost)
                               ELSE Undefined,
                    !.info = IF a.outcome = "page" THEN stripePublishableKey ELSE ""]])
  /\ UNCHANGED <<handlerVars, catalogSource>>

ProcessPaymentStartMutLookupFirst(s, r) ==
  IF MissingFields(r.body)
  THEN Respond(s, [r EXCEPT !.resp = [NoResp EXCEPT !.status = 400,
                     !.outcome = "missingFields", !.error = "Missing required fields"]])
  ELSE req' = [req EXCEPT ![s] = AwaitEvents(r)]

\* the synchronous part of POST /process-payment for the request r
ProcessPaymentStart(s, r) ==
  IF MissingFields(r.body)
  THEN Respond(s, [r EXCEPT !.resp = [NoResp EXCEPT !.status = 400,
                     !.outcome = "missingFields", !.error = "Missing required fields"]])
  ELSE IF TooSmall(r.body)
  THEN Respond(s, [r EXCEPT !.resp = [NoResp EXCEPT !.status = 400,
                     !.outcome = "amountTooSmall", !.error = "Amount too small"]])
  ELSE req' = [req EXCEPT ![s] = AwaitEvents(r)]

\* POST /process-payment arrives with a body written by the caller
ProcessPayment(s) ==
  /\ Free(s)
  /\ \E body \in PayBodies :
       ProcessPaymentStart(s, [IdleReq EXCEPT !.kind = "pay", !.origin = "direct",
                                              !.eventId = body.eventId, !.body = body])
  /\ UNCHANGED <<serverVars, catalogSource>>

\* POST /process-payment arrives from the script of a checkout page that
\* connection p was sent: eventId and amount are the page's
ProcessPaymentFromPage(s, p) ==
  /\ Free(s)
  /\ req[p].kind = "checkout" /\ req[p].pc = "done" /\ req[p].resp.outcome = "page"
  /\ ProcessPaymentStart(s,
       [IdleReq EXCEPT !.kind = "pay", !.origin = "page",
                       !.eventId = req[p].eventId,
                       !.pageCost = req[p].resp.eventCost,
                       !.body = Body(TRUE, req[p].eventId, TRUE, TRUE, TRUE,
                                     req[p].resp.amount)])
  /\ UNCHANGED <<serverVars, catalogSource>>

\* the catalog GET of a payment settles: the catch, the 404, or the call of
\* stripe.charges.create (the handler reads the event's name, never its cost)
PaymentLookupResumes(s) ==
  /\ req[s].kind = "pay" /\ req[s].pc = "awaitEvents"
  /\ \E outcome \in FetchOutcomes(catalogSource) :
       LET l == Lookup(catalogSource, outcome, req[s].body.eventId)
       IN IF l.how # "found"
          THEN Thrown(s, ThrowingStep(l.how),
               [req[s] EXCEPT !.fetched = Fetched(catalogSource, outcome),
                             !.resp = [NoResp EXCEPT !.status = 400,
                             !.outcome = "paymentError",
                             !.error = ErrorMessage(LookupError(l.how))]])
          ELSE IF l.event = NoEvent
          THEN Sends(s, [req[s] EXCEPT !.fetched = Fetched(catalogSource, outcome),
                             !.resp = [NoResp EXCEPT !.status = 404,
                             !.outcome = "eventNotFound",
                             !.error = "Conference event not found"]])
          ELSE /\ phase' = phase
               /\ req' = [req EXCEPT ![s] = [@ EXCEPT !.pc = "awaitCharge",
                         !.fetched = Fetched(catalogSource, outcome),
                         !.event = [l.event EXCEPT !.cost = Undefined],
                         !.charges = @ + 1,
                         !.chargeAmount = ChargeAmount(req[s].body)]]
  /\ UNCHANGED <<handlerVars, catalogSource>>

ChargeResponseMutAlwaysSuccess(charge) ==
  IF charge.raised
  THEN [NoResp EXCEPT !.status = 400, !.outcome = "paymentError",
                      !.error = ErrorMessage(charge)]
  ELSE [NoResp EXCEPT !.status = 200, !.outcome = "charged", !.success = TRUE,
                      !.chargeId = charge.id, !.receiptUrl = charge.receiptUrl]

\* the response to what stripe.charges.create returned or raised
ChargeResponse(charge) ==
  IF charge.raised
  THEN [NoResp EXCEPT !.status = 400, !.outcome = "paymentError",
                      !.error = ErrorMessage(charge)]
  ELSE IF charge.status = "succeeded"
  THEN [NoResp EXCEPT !.status = 200, !.outcome = "charged", !.success = TRUE,
                      !.chargeId = charge.id, !.receiptUrl = charge.receiptUrl]
  ELSE [NoResp EXCEPT !.status = 400, !.outcome = "notSuccessful",
                      !.error = "Payment was not successful"]

PaymentChargeResumesMutRetry(s) ==
  /\ req[s].kind = "pay" /\ req[s].pc = "awaitCharge"
  /\ \E charge \in ProcessorOutcomes(req[s].chargeAmount) :
       LET r == [req[s] EXCEPT !.charge = charge, !.resp = ChargeResponse(charge)]
       IN IF (charge.raised \/ charge.status # "succeeded") /\ req[s].charges < 2
          THEN req' = [req EXCEPT ![s].charges = @ + 1] /\ phase' = phase
          ELSE IF charge.raised THEN Thrown(s, "charge", r) ELSE Sends(s, r)
  /\ UNCHANGED <<handlerVars, catalogSource>>

\* stripe.charges.create settles
PaymentChargeResumes(s) ==
  /\ req[s].kind = "pay" /\ req[s].pc = "awaitCharge"
  /\ \E charge \in ProcessorOutcomes(req[s].chargeAmount) :
       LET r == [req[s] EXCEPT !.charge = charge, !.resp = ChargeResponse(charge)]
       IN IF charge.raised THEN Thrown(s, "charge", r) ELSE Sends(s, r)
  /\ UNCHANGED <<handlerVars, catalogSource>>

\* GET /api/events arrives
ListEvents(s) ==
  /\ Free(s)
  /\ req' = [req EXCEPT ![s] = AwaitEvents([IdleReq EXCEPT !.kind = "listEvents"])]
  /\ UNCHANGED <<serverVars, catalogSource>>

\* the catalog GET of GET /api/events settles
ListEventsResumes(s) ==
  /\ req[s].kind = "listEvents" /\ req[s].pc = "awaitEvents"
  /\ \E outcome \in FetchOutcomes(catalogSource) :
       IF outcome # "ok"
       THEN Thrown(s, "loadEvents", [req[s] EXCEPT !.fetched = Fetched(catalogSource, outcome),
                          !.resp = [NoResp EXCEPT !.status = 500,
                          !.outcome = "fetchError",
                          !.error = "Unable to fetch conference events"]])
       ELSE Sends(s, [req[s] EXCEPT !.fetched = Fetched(catalogSource, outcome),
                          !.resp = [NoResp EXCEPT !.status = 200,
                          !.outcome = "events", !.success = TRUE,
                          !.events = catalogSource.events,
                          !.total = IF catalogSource.isArray
                                    THEN Num(Len(catalogSource.events) * Scale)
                                    ELSE Undefined]])
  /\ UNCHANGED <<handlerVars, catalogSource>>

\* GET /api/events/:eventId arrives
GetEvent(s) ==
  /\ Free(s)
  /\ \E id \in EventIds :
       req' = [req EXCEPT ![s] =
                 AwaitEvents([IdleReq EXCEPT !.kind = "getEvent", !.eventId = id])]
  /\ UNCHANGED <<serverVars, catalogSource>>

\* the catalog GET of GET /api/events/:eventId settles
GetEventResumes(s) ==
  /\ req[s].kind = "getEvent" /\ req[s].pc = "awaitEvents"
  /\ \E outcome \in FetchOutcomes(catalogSource) :
       LET l == Lookup(catalogSource, outcome, req[s].eventId)
       IN IF l.how # "found"
          THEN Thrown(s, ThrowingStep(l.how),
               [req[s] EXCEPT !.fetched = Fetched(catalogSource, outcome),
                             !.resp = [NoResp EXCEPT !.status = 500,
                             !.outcome = "fetchError",
                             !.error = "Unable to fetch conference details"]])
          ELSE IF l.event = NoEvent
          THEN Sends(s, [req[s] EXCEPT !.fetched = Fetched(catalogSource, outcome),
                             !.resp = [NoResp EXCEPT !.status = 404,
                             !.outcome = "notFound",
                             !.error = "Conference event not found"]])
          ELSE Sends(s, [req[s] EXCEPT !.fetched = Fetched(catalogSource, outcome),
                             !.event = l.event,
                             !.resp = [NoResp EXCEPT !.status = 200,
                                !.outcome = "event", !.success = TRUE,
                                !.eventCost = l.event.cost]])
  /\ UNCHANGED <<handlerVars, catalogSource>>

\* config: CONFIG ? 'loaded' : 'not_loaded'
ConfigLoaded(cfg) == IF ConfigUnset(cfg) THEN "not_loaded" ELSE "loaded"

HealthMutReloads(s) ==
  /\ Free(s)
  /\ CONFIG' = FallbackConfig
  /\ configWrites' = configWrites + 1
  /\ Respond(s, [IdleReq EXCEPT !.kind = "health",
                   !.resp = [NoResp EXCEPT !.status = 200, !.outcome = "health",
                                           !.info = ConfigLoaded(CONFIG)]])
  /\ UNCHANGED <<fetch, env, configSource, configGets, loadOutcome, call, phase, stripe,
                 stripePublishableKey, catalogSource>>

\* GET /api/health
Health(s) ==
  /\ Free(s)
  /\ Respond(s, [IdleReq EXCEPT !.kind = "health",
                   !.resp = [NoResp EXCEPT !.status = 200, !.outcome = "health",
                                           !.info = ConfigLoaded(CONFIG)]])
  /\ UNCHANGED <<serverVars, catalogSource>>

\* the catalog host stops answering the GET of s: no response, no 'end', no
\* 'error' will come; loadEvents sets no timeout, so its promise stays pending
CatalogHangs(s) ==
  /\ req[s].pc = "awaitEvents"
  /\ req' = [req EXCEPT ![s].pc = "hung"]
  /\ UNCHANGED <<serverVars, catalogSource>>

\* the catalog host serves something else from now on
CatalogChanges ==
  /\ catalogSource' \in CatalogSources \ {catalogSource}
  /\ UNCHANGED <<serverVars, req>>

-----------------------------------------------------------------------------
(* One remote fetch, event by event: the promise of loadConfig / loadEvents *)

\* calls of loadConfig / loadEvents made one after the other in SpecFetch
MaxFetches == 3

\* bodies the remote source serves, as the chunks of the 'data' events:
\* "12" in two chunks, "4", "450" in three chunks, "4x" in two chunks (no
\* JSON as a whole, JSON up to the first chunk), and the empty body
Body12 == << <<"1">>, <<"2">> >>
Body4 == << <<"4">> >>
Body450 == << <<"4">>, <<"5">>, <<"0">> >>
Body4x == << <<"4">>, <<"x">> >>
BodyEmpty == << >>

ServedBodies == {Body12, Body4, Body450, Body4x, BodyEmpty}

\* JSON.parse on texts of digits: a number without a leading zero parses to
\* its value, every other text of the model throws a SyntaxError
JSONParse(text) ==
  IF Len(text) > 0 /\ DigitRun(text, 1) = Len(text) /\ (Len(text) = 1 \/ text[1] # "0")
  THEN [ok |-> TRUE, value |-> DigitsValue(text, 1, Len(text))]
  ELSE [ok |-> FALSE, value |-> 0]

\* new Promise(...): not settled
Pending == [state |-> "pending", value |-> 0, error |-> ""]

\* resolve(v) and reject(e) act on a pending promise only
Resolve(p, v) == IF p.state = "pending" THEN [state |-> "fulfilled", value |-> v, error |-> ""] ELSE p

Reject(p, e) == IF p.state = "pending" THEN [state |-> "rejected", value |-> 0, error |-> e] ELSE p

\* no fetch has been called
IdleFetch ==
  [fn |-> "", pc |-> "idle", calls |-> 0, gets |-> 0, body |-> << >>, next |-> 1,
   data |-> << >>, promise |-> Pending, settled |-> 0]

EndOfBodyMutEarly(f) == TRUE

\* the response is complete: every chunk of the body has been delivered
EndOfBody(f) == f.next > Len(f.body)

\* loadConfig() or loadEvents() is called: the promise is created and
\* https.get issues the GET
FetchCall ==
  /\ fetch.pc \in {"idle", "ended", "failed"}
  /\ fetch.calls < MaxFetches
  /\ \E fn \in {"loadConfig", "loadEvents"}, body \in ServedBodies :
       fetch' = [IdleFetch EXCEPT !.fn = fn, !.pc = "requested", !.calls = fetch.calls + 1,
                                  !.gets = 1, !.body = body]
  /\ UNCHANGED <<env, configSource, CONFIG, configGets, configWrites, loadOutcome, call,
                 phase, stripe, stripePublishableKey, catalogSource, req>>

\* the response arrives: the callback of https.get sets data = '' and
\* registers the 'data' and 'end' listeners
FetchResponse ==
  /\ fetch.pc = "requested"
  /\ fetch' = [fetch EXCEPT !.pc = "receiving", !.data = << >>]
  /\ UNCHANGED <<env, configSource, CONFIG, configGets, configWrites, loadOutcome, call,
                 phase, stripe, stripePublishableKey, catalogSource, req>>

\* res 'data': data += chunk
FetchData ==
  /\ fetch.pc = "receiving"
  /\ fetch.next <= Len(fetch.body)
  /\ fetch' = [fetch EXCEPT !.data = @ \o fetch.body[fetch.next], !.next = @ + 1]
  /\ UNCHANGED <<env, configSource, CONFIG, configGets, configWrites, loadOutcome, call,
                 phase, stripe, stripePublishableKey, catalogSource, req>>

\* res 'end': resolve(JSON.parse(data)), or reject(error) when the parse throws
FetchEnd ==
  /\ fetch.pc = "receiving"
  /\ EndOfBody(fetch)
  /\ LET parsed == JSONParse(fetch.data)
         p == IF parsed.ok THEN Resolve(fetch.promise, parsed.value)
              ELSE Reject(fetch.promise, "SyntaxError")
     IN fetch' = [fetch EXCEPT !.pc = "ended", !.promise = p,
                               !.settled = IF p # fetch.promise THEN @ + 1 ELSE @]
  /\ UNCHANGED <<env, configSource, CONFIG, configGets, configWrites, loadOutcome, call,
                 phase, stripe, stripePublishableKey, catalogSource, req>>

\* the request's 'error': reject(error). Before the end of the response the
\* socket is gone, so no 'data' and no 'end' follows; an 'error' of the
\* socket after 'end' finds the promise already settled
FetchError ==
  /\ fetch.pc \in {"requested", "receiving", "ended"}
  /\ LET p == Reject(fetch.promise, "TransportError")
     IN fetch' = [fetch EXCEPT !.pc = IF fetch.pc = "ended" THEN "ended" ELSE "failed",
                               !.promise = p,
                               !.settled = IF p # fetch.promise THEN @ + 1 ELSE @]
  /\ UNCHANGED <<env, configSource, CONFIG, configGets, configWrites, loadOutcome, call,
                 phase, stripe, stripePublishableKey, catalogSource, req>>

-----------------------------------------------------------------------------
(* The server process *)

\* configuration bodies and environments the server is started with
ServerConfigSources ==
  { src \in ConfigSources :
      src.value \in {ConfigObject("pk_config", "sk_config", "url_config"),
                     ConfigFalsy, ConfigNull} }

ServerEnvs ==
  { e \in Envs : e.STRIPE_PUBLISHABLE_KEY = "undef" /\ e.STRIPE_SECRET_KEY = "sk_env" }

Init ==
  /\ fetch = IdleFetch
  /\ env \in ServerEnvs
  /\ configSource \in ServerConfigSources
  /\ CONFIG = ConfigNull
  /\ configGets = 0
  /\ configWrites = 0
  /\ loadOutcome = "none"
  /\ call = [c \in Callers |-> IdleCall]
  /\ phase = "boot"
  /\ stripe = "null"
  /\ stripePublishableKey = "undef"
  /\ catalogSource \in CatalogSources
  /\ req = [s \in 1..MaxConnections |-> IdleReq]

Next ==
  \/ startServer
  \/ initializeApp
  \/ CatalogChanges
  \/ \E s \in Connections : Checkout(s)
  \/ \E s \in Connections : CheckoutResumes(s)
  \/ \E s \in Connections : ProcessPayment(s)
  \/ \E s, p \in Connections : ProcessPaymentFromPage(s, p)
  \/ \E s \in Connections : PaymentLookupResumes(s)
  \/ \E s \in Connections : PaymentChargeResumes(s)
  \/ \E s \in Connections : ListEvents(s)
  \/ \E s \in Connections : ListEventsResumes(s)
  \/ \E s \in Connections : GetEvent(s)
  \/ \E s \in Connections : GetEventResumes(s)
  \/ \E s \in Connections : Health(s)

Spec == Init /\ [][Next]_vars

\* the server when every catalog GET and every processor call settles: a
\* handler suspended at an await is resumed
SpecLive ==
  /\ Init
  /\ [][Next]_vars
  /\ \A s \in 1..MaxConnections :
       /\ WF_vars(CheckoutResumes(s))
       /\ WF_vars(PaymentLookupResumes(s))
       /\ WF_vars(PaymentChargeResumes(s))
       /\ WF_vars(ListEventsResumes(s))
       /\ WF_vars(GetEventResumes(s))

-----------------------------------------------------------------------------
(* getStripeConfig under any number of calls *)

InitCfg ==
  /\ fetch = IdleFetch
  /\ env \in Envs
  /\ configSource \in ConfigSources
  /\ CONFIG = ConfigNull
  /\ configGets = 0
  /\ configWrites = 0
  /\ loadOutcome = "none"
  /\ call = [c \in Callers |-> IdleCall]
  /\ phase = "boot"
  /\ stripe = "null"
  /\ stripePublishableKey = "undef"
  /\ catalogSource \in {src \in CatalogSources : src.events = CatalogA}
  /\ req = [s \in 1..MaxConnections |-> IdleReq]

NextCfg ==
  \/ \E c \in Callers : getStripeConfig(c)
  \/ \E c \in Callers : loadConfigSettles(c)

SpecCfg == InitCfg /\ [][NextCfg]_vars

-----------------------------------------------------------------------------
(* Requests in parallel, with a catalog host that may stop answering *)

\* connections open at once
MaxParallel == 2

InitPar ==
  /\ fetch = IdleFetch
  /\ env \in ServerEnvs
  /\ configSource = [parseable |-> TRUE,
                     value |-> ConfigObject("pk_config", "sk_config", "url_config")]
  /\ CONFIG = ConfigNull
  /\ configGets = 0
  /\ configWrites = 0
  /\ loadOutcome = "none"
  /\ call = [c \in Callers |-> IdleCall]
  /\ phase = "boot"
  /\ stripe = "null"
  /\ stripePublishableKey = "undef"
  /\ catalogSource = [parseable |-> TRUE, isArray |-> TRUE, events |-> CatalogA]
  /\ req = [s \in 1..MaxParallel |-> IdleReq]

NextPar ==
  \/ Next
  \/ \E s \in Connections : CatalogHangs(s)

SpecPar == InitPar /\ [][NextPar]_vars

-----------------------------------------------------------------------------
(* loadConfig / loadEvents as a sequence of events *)

InitFetch ==
  /\ fetch = IdleFetch
  /\ env = [STRIPE_PUBLISHABLE_KEY |-> "undef", STRIPE_SECRET_KEY |-> "undef"]
  /\ configSource = [parseable |-> FALSE, value |-> ConfigNull]
  /\ CONFIG = ConfigNull
  /\ configGets = 0
  /\ configWrites = 0
  /\ loadOutcome = "none"
  /\ call = [c \in Callers |-> IdleCall]
  /\ phase = "boot"
  /\ stripe = "null"
  /\ stripePublishableKey = "undef"
  /\ catalogSource = [parseable |-> FALSE, isArray |-> FALSE, events |-> << >>]
  /\ req = [s \in 1..MaxConnections |-> IdleReq]

NextFetch ==
  \/ FetchCall
  \/ FetchResponse
  \/ FetchData
  \/ FetchEnd
  \/ FetchError

SpecFetch == InitFetch /\ [][NextFetch]_vars

-----------------------------------------------------------------------------
(* Properties *)

\* C1: whatever the first configuration GET gave, a call of getStripeConfig
\* made after CONFIG has been assigned issues no new GET, so the number of
\* GETs stays at the one of the first call
C1_NoFetchOnceCacheSet == [][configWrites >= 1 => configGets' = configGets]_vars

\* C2: when the configuration GET fails (transport error, or a body that is
\* not JSON) the error does not leave getStripeConfig: CONFIG is the empty
\* fallback (no key, no endpoint URL), the processor client is built and the
\* server listens instead of exiting
C2_FailedFetchFallsBack ==
  (loadOutcome \in {"neterr", "parseerr"}) =>
     /\ CONFIG.t = "object"
     /\ CONFIG.publishableKey = "undef" /\ CONFIG.secretKey = "undef"
     /\ CONFIG.eventsUrl = "undef"
     /\ phase = "listening"
     /\ stripe # "null"

C2_Witness ==
  /\ loadOutcome = "parseerr"
  /\ phase = "listening"
  /\ \E s \in Connections :
       req[s].pc = "done" /\ req[s].resp.status = 200 /\ req[s].url = DefaultEventsUrl

\* C3: CONFIG is assigned at most once in the life of the process: once it
\* has been assigned, and in every state in which requests are handled, no
\* step changes it
C3_ConfigWrittenOnce ==
  [][(configWrites >= 1 \/ phase = "listening")
       => (CONFIG' = CONFIG /\ configWrites' = configWrites)]_vars

C3_Witness ==
  /\ configWrites = 1
  /\ loadOutcome = "ok"
  /\ \E s \in Connections :
       req[s].pc = "done" /\ req[s].kind = "getEvent" /\ req[s].url = "url_config"

\* the number each ?pay= string of PayStrings writes, in thousandths;
\* "abc" writes none
Written ==
  { <<S0, 0>>, <<S0p5, 500>>, <<S1, 1000>>, <<S450, 450000>>,
    <<S10000, 10000000>>, <<S10001, 10001000>> }

\* a checkout that found its event and has sent its response on s
CheckoutDone(s) ==
  /\ req[s].kind = "checkout" /\ req[s].pc = "done"
  /\ req[s].resp.outcome \notin {"loadError", "notFound"}

\* the processor's charge-creation operation has been invoked for the request on s
Charged(s) == req[s].kind = "pay" /\ req[s].charges > 0

\* the minor-unit amount m is what the catalog price of event id comes to in
\* some catalog the source serves
IsCatalogPrice(m, id) ==
  \E src \in CatalogSources : \E i \in 1..Len(src.events) :
     /\ src.events[i].eventId = id
     /\ m.t = "num"
     /\ m.n % Scale = 0
     /\ 2 * (m.n - 100 * src.events[i].cost.n) > -Scale
     /\ 2 * (m.n - 100 * src.events[i].cost.n) <= Scale

\* C4: no sequence of checkout and payment requests leads to a charge whose
\* amount is an override outside [1, 10000]: every amount the processor is
\* invoked with is, in major units, within [1, 10000] or the catalog price
C4_NoChargeOutsideOverrideRange ==
  \A s \in Connections :
     Charged(s) =>
        \/ /\ req[s].chargeAmount.t = "num"
           /\ req[s].chargeAmount.n >= OverrideMin * 100 * Scale
           /\ req[s].chargeAmount.n <= OverrideMax * 100 * Scale
        \/ IsCatalogPrice(req[s].chargeAmount, req[s].body.eventId)

\* C5: for an existing event, an override within [1, 10000], both bounds
\* included, is the amount checkout resolves, whatever the catalog price
C5_OverrideInRangeWins ==
  \A s \in Connections : \A w \in Written :
     (CheckoutDone(s) /\ req[s].customPay = w[1]
        /\ w[2] >= OverrideMin * Scale /\ w[2] <= OverrideMax * Scale)
     => (req[s].resp.outcome = "page" /\ req[s].resp.eventCost = Num(w[2]))

C5_Witness ==
  \E s \in Connections :
     /\ CheckoutDone(s) /\ req[s].customPay = S10000
     /\ req[s].event.cost = Num(299 * Scale)
     /\ req[s].resp.eventCost = Num(10000 * Scale)

\* C6: for an existing event and no override, checkout resolves the catalog
\* price as it is, also when it lies outside [1, 10000]
C6_NoOverrideUsesCatalogCost ==
  \A s \in Connections :
     (CheckoutDone(s) /\ req[s].customPay = << >>)
     => /\ req[s].resp.outcome = "page"
        /\ req[s].resp.eventCost = req[s].event.cost
        /\ \E src \in CatalogSources : \E i \in 1..Len(src.events) :
              /\ src.events[i].eventId = req[s].eventId
              /\ src.events[i].cost = req[s].resp.eventCost

C6_Witness ==
  /\ \E s \in Connections :
       /\ CheckoutDone(s) /\ req[s].customPay = << >>
       /\ req[s].eventId = "RS2025AI"
       /\ req[s].resp.eventCost = Num(12000 * Scale + 5)

\* C7: the parse check comes before the range check and the two rejections
\* differ: an override that writes no number or a number <= 0 is rejected as
\* an invalid amount, never as out of range; a positive one is rejected as
\* out of range exactly when it is < 1 or > 10000
C7_ParseThenRange ==
  \A s \in Connections :
     (CheckoutDone(s) /\ req[s].customPay # << >>) =>
        /\ (req[s].customPay = Sabc => req[s].resp.outcome = "invalidAmount")
        /\ \A w \in Written :
             req[s].customPay = w[1] =>
                /\ (w[2] <= 0 => req[s].resp.outcome = "invalidAmount")
                /\ (w[2] > 0 =>
                      (req[s].resp.outcome = "outOfRange"
                         <=> (w[2] < OverrideMin * Scale \/ w[2] > OverrideMax * Scale)))
                /\ (w[2] > 0 => req[s].resp.outcome # "invalidAmount")
        /\ req[s].resp.status = IF req[s].resp.outcome = "page" THEN 200 ELSE 400

C7_Witness ==
  \E s \in Connections :
     /\ CheckoutDone(s) /\ req[s].customPay = S0
     /\ req[s].resp.outcome = "invalidAmount"

\* C8: every amount the processor's charge-creation operation is invoked
\* with is an integer number of minor units
C8_ChargeAmountIsInteger ==
  \A s \in Connections : Charged(s) => IsInteger(req[s].chargeAmount)

\* C9: when the payment request of a checkout page reaches the processor,
\* the amount is the page's amount a in major units times 100, rounded to
\* the nearest integer (a half up): 299 gives 29900, an override 450 gives 45000
C9_PageAmountRoundTrip ==
  \A s \in Connections :
     (Charged(s) /\ req[s].origin = "page") =>
        /\ req[s].chargeAmount.t = "num"
        /\ req[s].chargeAmount.n % Scale = 0
        /\ 2 * (req[s].chargeAmount.n - 100 * req[s].pageCost.n) > -Scale
        /\ 2 * (req[s].chargeAmount.n - 100 * req[s].pageCost.n) <= Scale
        /\ (req[s].pageCost = Num(299 * Scale) => req[s].chargeAmount = Num(29900 * Scale))
        /\ (req[s].pageCost = Num(450 * Scale) => req[s].chargeAmount = Num(45000 * Scale))

C9_Witness ==
  \E s \in Connections :
     /\ Charged(s) /\ req[s].origin = "page" /\ req[s].pc = "done"
     /\ req[s].pageCost = Num(450 * Scale)
     /\ req[s].chargeAmount = Num(45000 * Scale)
     /\ req[s].resp.success

\* a field of the posted body is absent
FieldAbsent(body) ==
  \/ ~body.token \/ body.eventId = "" \/ ~body.name \/ ~body.email \/ ~body.phone
  \/ body.amount = Undefined

\* C10: a payment request with token, eventId, name, email, phone or amount
\* absent is answered 'Missing required fields' with success false, and the
\* processor is not invoked for it
C10_MissingFieldsRejected ==
  \A s \in Connections :
     (req[s].kind = "pay" /\ FieldAbsent(req[s].body)) =>
        /\ req[s].pc = "done"
        /\ req[s].resp.outcome = "missingFields"
        /\ req[s].resp.error = "Missing required fields"
        /\ req[s].resp.status = 400
        /\ ~req[s].resp.success
        /\ req[s].charges = 0

C10_Witness ==
  \E s \in Connections :
     /\ req[s].kind = "pay" /\ req[s].pc = "done"
     /\ ~req[s].body.phone /\ req[s].body.token
     /\ req[s].resp.outcome = "missingFields"

\* C11: a payment request whose amount is below 50 minor units is answered
\* 'Amount too small' with success false, and every amount the processor's
\* charge-creation operation is invoked with is a number >= 50
C11_ChargeAtLeastMinimum ==
  \A s \in Connections :
     /\ (req[s].kind = "pay" /\ req[s].body.amount.t = "num"
           /\ req[s].body.amount.n > 0 /\ req[s].body.amount.n < MinCharge * Scale
           /\ ~FieldAbsent(req[s].body))
        => (req[s].resp.outcome = "amountTooSmall" /\ ~req[s].resp.success
              /\ req[s].charges = 0)
     /\ Charged(s) =>
           (req[s].chargeAmount.t = "num" /\ req[s].chargeAmount.n >= MinCharge * Scale)

\* the catalog the request on s fetched is an array without the event id
FetchedWithout(s, id) ==
  /\ req[s].fetched.outcome = "ok" /\ req[s].fetched.isArray
  /\ \A i \in 1..Len(req[s].fetched.events) : req[s].fetched.events[i].eventId # id

\* C12: a payment request whose eventId is not in the catalog fetched during
\* that request is answered 404 'Conference event not found' with success
\* false and the processor is not invoked, also when the checkout page of
\* that event had been rendered before
C12_PaymentReResolvesEvent ==
  \A s \in Connections :
     (req[s].kind = "pay" /\ FetchedWithout(s, req[s].body.eventId)) =>
        /\ req[s].pc = "done"
        /\ req[s].resp.outcome = "eventNotFound"
        /\ req[s].resp.status = 404
        /\ req[s].resp.error = "Conference event not found"
        /\ ~req[s].resp.success
        /\ req[s].charges = 0

C12_Witness ==
  \E s \in Connections :
     /\ req[s].kind = "pay" /\ req[s].origin = "page"
     /\ req[s].pageCost = Num(450 * Scale)
     /\ req[s].body.eventId = "RS2025ML"
     /\ req[s].fetched.events = CatalogB
     /\ req[s].resp.outcome = "eventNotFound"

\* stripe.charges.create has settled for the payment request on s
ChargeSettled(s) == Charged(s) /\ req[s].pc = "done"

\* C13: when the processor returns without raising, the response has success
\* true with the processor's charge id and receipt URL exactly when the status
\* is 'succeeded', and success false otherwise; status 'succeeded' with id
\* 'ch_123' gives success true and chargeId 'ch_123'
C13_SuccessIffSucceeded ==
  \A s \in Connections :
     (ChargeSettled(s) /\ ~req[s].charge.raised) =>
        /\ req[s].resp.success <=> (req[s].charge.status = "succeeded")
        /\ req[s].charge.status = "succeeded" =>
              /\ req[s].resp.status = 200
              /\ req[s].resp.chargeId = "ch_123"
              /\ req[s].resp.chargeId = req[s].charge.id
              /\ req[s].resp.receiptUrl = req[s].charge.receiptUrl
              /\ req[s].resp.error = ""
        /\ req[s].charge.status # "succeeded" =>
              /\ req[s].resp.status = 400
              /\ req[s].resp.error = "Payment was not successful"
              /\ req[s].resp.chargeId = "" /\ req[s].resp.receiptUrl = ""

C13_Witness ==
  \E s \in Connections :
     /\ ChargeSettled(s) /\ req[s].charge.status = "pending"
     /\ req[s].resp.outcome = "notSuccessful"

\* C14: every exception the processor raises is caught and answered with
\* success false and a message chosen by the exception's kind: the
\* processor's own message for a card error, and one of three fixed messages
\* for an invalid request, an API error and any other kind
C14_ProcessorErrorsClassified ==
  \A s \in Connections :
     (ChargeSettled(s) /\ req[s].charge.raised) =>
        /\ phase = "listening"
        /\ ~req[s].resp.success
        /\ req[s].resp.status = 400
        /\ req[s].resp.chargeId = ""
        /\ req[s].charge.type = "StripeCardError" =>
              req[s].resp.error = req[s].charge.message
        /\ req[s].charge.type = "StripeInvalidRequestError" =>
              req[s].resp.error = "Invalid payment information"
        /\ req[s].charge.type = "StripeAPIError" =>
              req[s].resp.error = "Payment service temporarily unavailable"
        /\ req[s].charge.type \notin
              {"StripeCardError", "StripeInvalidRequestError", "StripeAPIError"} =>
              req[s].resp.error = "Payment failed. Please try again."

C14_Witness ==
  \E s \in Connections :
     /\ ChargeSettled(s) /\ req[s].charge.type = "StripeCardError"
     /\ req[s].resp.error = "Your card was declined."
     /\ ~req[s].resp.success

\* the fixed messages of the catch of /process-payment
GenericMessages ==
  { "Invalid payment information", "Payment service temporarily unavailable",
    "Payment failed. Please try again." }

\* exceptions that are not card errors, of every kind with two different contents
NonCardErrors ==
  { Raised(type, message) :
      type \in {"StripeInvalidRequestError", "StripeAPIError", "StripeConnectionError", ""},
      message \in {"ECONNRESET 10.0.0.7", "No such token: tok_1"} }

\* C15: for an exception that is not a card error the response does not
\* depend on the exception's message: the message returned is one of the
\* fixed generic ones, and two runs of the same payment request that differ
\* only in the content of the exception of one kind return the same response
C15_NonCardErrorsOpaque ==
  \A s \in Connections :
     /\ (ChargeSettled(s) /\ req[s].charge.raised /\ req[s].charge.type # "StripeCardError") =>
           /\ req[s].resp.error \in GenericMessages
           /\ req[s].resp.error # req[s].charge.message
     /\ (req[s].kind = "pay" /\ req[s].pc = "done" /\ req[s].charges = 0
           /\ req[s].resp.outcome = "paymentError") =>
           req[s].resp.error \in GenericMessages
     /\ (req[s].kind = "pay" /\ req[s].pc = "awaitCharge") =>
           \A c1, c2 \in ProcessorOutcomes(req[s].chargeAmount) \cup NonCardErrors :
              (c1.raised /\ c2.raised /\ c1.type = c2.type /\ c1.type # "StripeCardError")
                 => ChargeResponse(c1) = ChargeResponse(c2)

C15_Witness ==
  \E s \in Connections :
     /\ ChargeSettled(s) /\ req[s].charge.type = "StripeConnectionError"
     /\ req[s].charge.message = "ECONNRESET 10.0.0.7"
     /\ req[s].resp.error = "Payment failed. Please try again."

\* the request on s got a parsed body from the catalog GET, and no element of
\* it is the event id (a body that is not an array has no elements)
ParsedWithout(s, id) ==
  /\ req[s].fetched.outcome = "ok"
  /\ \A i \in 1..Len(req[s].fetched.events) : req[s].fetched.events[i].eventId # id

\* C16: for an eventId that is not in the catalog, whatever parseable JSON
\* the catalog source returned, checkout, getEvent and processPayment answer
\* with the not-found outcome and never go through an exception
C16_NotFoundNeverThrows ==
  \A s \in Connections :
     /\ (req[s].kind \in {"checkout", "getEvent"} /\ ParsedWithout(s, req[s].eventId)) =>
           (req[s].resp.outcome = "notFound" /\ req[s].resp.status = 404)
     /\ (req[s].kind = "pay" /\ ParsedWithout(s, req[s].body.eventId)) =>
           (req[s].resp.outcome = "eventNotFound" /\ req[s].resp.status = 404)

\* the catalog GET of the request on s failed: transport error or no JSON
FetchFailed(s) == req[s].fetched.outcome \in {"neterr", "parseerr"}

\* C17: a failed catalog fetch (transport error or a body that is not JSON)
\* is answered, in checkout, getEvent, listEvents and processPayment, with an
\* error response that differs from the not-found response in status and
\* text; no catalog is substituted and no charge is made
C17_CatalogFailureSurfaced ==
  \A s \in Connections :
     FetchFailed(s) =>
        /\ req[s].pc = "done"
        /\ ~req[s].resp.success
        /\ req[s].resp.status # 404
        /\ req[s].resp.outcome \notin {"notFound", "eventNotFound"}
        /\ req[s].resp.error # "Conference event not found"
        /\ req[s].resp.events = << >> /\ req[s].event = NoEvent
        /\ req[s].charges = 0
        /\ req[s].kind = "checkout" =>
              (req[s].resp.status = 500 /\ req[s].resp.outcome = "loadError")
        /\ req[s].kind = "getEvent" =>
              (req[s].resp.status = 500
                 /\ req[s].resp.error = "Unable to fetch conference details")
        /\ req[s].kind = "listEvents" =>
              (req[s].resp.status = 500
                 /\ req[s].resp.error = "Unable to fetch conference events")
        /\ req[s].kind = "pay" =>
              (req[s].resp.status = 400
                 /\ req[s].resp.error = "Payment failed. Please try again.")

C17_Witness ==
  \E s \in Connections :
     /\ req[s].kind = "pay" /\ req[s].fetched.outcome = "parseerr"
     /\ req[s].resp.error = "Payment failed. Please try again."

\* the catalog served at the moment has an event id with this cost
ServedCost(id, cost) ==
  \E i \in 1..Len(catalogSource.events) :
     catalogSource.events[i].eventId = id /\ catalogSource.events[i].cost = cost

\* C18: the catalog is never cached: every checkout, payment, listing and
\* event request that resolves events starts with nothing fetched and issues
\* exactly one catalog GET, and what it answers is read from the catalog as
\* served when that GET settles, so an event removed or re-priced between two
\* requests is seen as removed or re-priced
C18_CatalogNeverCached ==
  [][\A s \in Connections :
       /\ (req'[s].pc = "awaitEvents" /\ req[s].pc # "awaitEvents") =>
             (req'[s].gets = 1 /\ req'[s].fetched = NotFetched)
       /\ (req[s].pc = "awaitEvents" /\ req'[s].pc # "awaitEvents") =>
             /\ req'[s].gets = 1
             /\ req'[s].fetched.outcome = "ok" =>
                   /\ req'[s].fetched.events = catalogSource.events
                   /\ req'[s].fetched.isArray = catalogSource.isArray
                   /\ req'[s].kind = "listEvents" =>
                         req'[s].resp.events = catalogSource.events
                   /\ (req'[s].kind = "getEvent" /\ req'[s].resp.success) =>
                         ServedCost(req'[s].eventId, req'[s].resp.eventCost)
                   /\ (req'[s].kind = "checkout" /\ req'[s].resp.success
                         /\ req'[s].customPay = << >>) =>
                         ServedCost(req'[s].eventId, req'[s].resp.eventCost)
                   /\ (req'[s].kind \in {"getEvent", "checkout"} /\ catalogSource.isArray
                         /\ \A i \in 1..Len(catalogSource.events) :
                               catalogSource.events[i].eventId # req'[s].eventId) =>
                         req'[s].resp.outcome = "notFound"
                   /\ (req'[s].kind = "pay" /\ req'[s].charges = 1) =>
                         \E i \in 1..Len(catalogSource.events) :
                            /\ catalogSource.events[i].eventId = req'[s].body.eventId
                            /\ catalogSource.events[i].eventName = req'[s].event.eventName
    ]_vars

C18_Witness ==
  \E s \in Connections :
     /\ req[s].kind = "pay" /\ req[s].origin = "page"
     /\ req[s].pageCost = Num(299 * Scale)
     /\ req[s].gets = 1
     /\ req[s].fetched.events = CatalogB
     /\ req[s].charges = 1

\* C19: each key a call of getStripeConfig returns is the one of the loaded
\* configuration when it has one, else the environment's when it is set,
\* else the placeholder
C19_KeyPriority ==
  [][\A c \in Callers :
       (call'[c] # call[c] /\ call'[c].pc = "returned") =>
          /\ ~call'[c].keys.threw
          /\ call'[c].keys.publishableKey =
                IF CONFIG'.publishableKey # "undef" THEN CONFIG'.publishableKey
                ELSE IF env.STRIPE_PUBLISHABLE_KEY # "undef" THEN env.STRIPE_PUBLISHABLE_KEY
                ELSE "pk_test_fallback"
          /\ call'[c].keys.secretKey =
                IF CONFIG'.secretKey # "undef" THEN CONFIG'.secretKey
                ELSE IF env.STRIPE_SECRET_KEY # "undef" THEN env.STRIPE_SECRET_KEY
                ELSE "sk_test_fallback"
    ]_vars

C19_Witness ==
  /\ env.STRIPE_PUBLISHABLE_KEY = "pk_env" /\ env.STRIPE_SECRET_KEY = "sk_env"
  /\ CONFIG = ConfigObject("pk_config", "undef", "undef")
  /\ \E c \in Callers :
       /\ call[c].pc = "returned"
       /\ call[c].keys.publishableKey = "pk_config"
       /\ call[c].keys.secretKey = "sk_env"

\* the responses by which the handlers report a failure
ErrorResponses ==
  { "loadError", "notFound", "invalidAmount", "outOfRange", "missingFields",
    "amountTooSmall", "eventNotFound", "paymentError", "notSuccessful", "fetchError" }

\* C20: once the server listens no request terminates the process: every
\* step taken while listening leaves it listening, every request that fails
\* validation, finds no event, fails its catalog fetch or its charge is
\* answered with an error response, and the process exits only from the
\* configuration step of startup
C20_RequestsNeverExit ==
  [][/\ phase = "listening" => phase' = "listening"
     /\ (phase' # phase /\ phase' \in {"exited", "crashed"}) =>
           (phase = "loadingConfig" /\ phase' = "exited")
     /\ \A s \in Connections :
          (phase = "listening" /\ req'[s] # req[s] /\ req'[s].pc \notin {"awaitEvents", "awaitCharge", "idle"}) =>
             /\ req'[s].pc = "done"
             /\ req'[s].resp.status \in {200, 400, 404, 500}
             /\ req'[s].kind # "health" =>
                   (req'[s].resp.status = 200 <=> req'[s].resp.success)
             /\ req'[s].resp.status # 200 => req'[s].resp.outcome \in ErrorResponses
    ]_vars

C20_Witness ==
  /\ phase = "listening"
  /\ \E s \in Connections :
       /\ req[s].kind = "getEvent" /\ req[s].pc = "done"
       /\ req[s].fetched.outcome = "ok" /\ ~req[s].fetched.isArray
       /\ req[s].resp.status = 500

\* C21: when first calls of getStripeConfig overlap, after all of them have
\* completed no such caller has failed, they were all given the same keys,
\* and CONFIG holds a configuration object: the body served or the fallback
C21_OverlapBenign ==
  (\A d \in Callers : call[d].pc # "loading") =>
     \A c \in Callers :
        call[c].overlapped =>
           /\ call[c].pc = "returned"
           /\ ~call[c].keys.threw
           /\ CONFIG.t = "object"
           /\ (CONFIG = FallbackConfig
                 \/ (configSource.parseable /\ CONFIG = configSource.value))
           /\ \A d \in Callers :
                 call[d].overlapped => call[d].keys = call[c].keys

\* C22: every catalog GET goes to the eventsUrl of the cached configuration
\* when it has one and to the hardcoded default URL otherwise, also when the
\* cache holds the fallback of a failed configuration fetch
C22_CatalogUrlFromConfig ==
  \A s \in Connections :
     req[s].gets > 0 =>
        /\ (CONFIG.t = "object" /\ CONFIG.eventsUrl # "undef") => req[s].url = CONFIG.eventsUrl
        /\ (CONFIG.t # "object" \/ CONFIG.eventsUrl = "undef") => req[s].url = "url_default"
        /\ loadOutcome \in {"neterr", "parseerr"} => req[s].url = "url_default"
        /\ (loadOutcome = "ok" /\ configSource.value.eventsUrl # "undef") =>
              req[s].url = configSource.value.eventsUrl

C22_Witness ==
  /\ loadOutcome = "neterr" /\ CONFIG = FallbackConfig
  /\ \E s \in Connections :
       req[s].kind = "listEvents" /\ req[s].pc = "done" /\ req[s].url = "url_default"

\* the value the whole of a served body denotes as JSON, tabulated; -1 for
\* a body that is no JSON text
WholeBodyValue(body) ==
  CASE body = Body12 -> 12
    [] body = Body4 -> 4
    [] body = Body450 -> 450
    [] OTHER -> -1

\* C23: every call of loadConfig / loadEvents issues exactly one GET and its
\* promise settles at most once: fulfilled with the JSON value of the whole
\* body (never of a part of it), or rejected with a transport error or, only
\* for a body that is no JSON text, a parse error; once settled the outcome
\* never changes and no further GET is issued for the call
C23_OneGetOneSettlement ==
  /\ [](/\ fetch.pc # "idle" => fetch.gets = 1
        /\ fetch.settled <= 1
        /\ fetch.settled = 1 <=> fetch.promise.state # "pending"
        /\ fetch.promise.state = "fulfilled" =>
             /\ fetch.next > Len(fetch.body)
             /\ fetch.promise.value = WholeBodyValue(fetch.body)
        /\ fetch.promise.state = "rejected" =>
             /\ fetch.promise.error \in {"TransportError", "SyntaxError"}
             /\ fetch.promise.error = "SyntaxError" => WholeBodyValue(fetch.body) = -1)
  /\ [][fetch'.calls = fetch.calls =>
          /\ fetch'.gets = fetch.gets \/ fetch.pc = "idle"
          /\ fetch.promise.state # "pending" => fetch'.promise = fetch.promise]_vars

\* a transport error arrives after the three-chunk body was delivered and
\* parsed: the promise stays fulfilled with 450
C23_Witness ==
  /\ fetch.body = Body450
  /\ fetch.pc = "ended"
  /\ fetch.promise = [state |-> "fulfilled", value |-> 450, error |-> ""]
  /\ fetch.settled = 1

\* C24: a request whose catalog GET never completes and never errors stays
\* without a response for ever (nothing times it out or cancels it), and in
\* the meantime the other connections are served: a new request is accepted
\* and a request whose own GET has been issued can get its response
C24_HungFetchHangsOnlyItsRequest ==
  /\ [](\A s \in Connections :
          req[s].pc = "hung" =>
             /\ req[s].resp = NoResp
             /\ \A t \in Connections \ {s} :
                  /\ (phase = "listening" /\ req[t].pc \in {"idle", "done"}) =>
                        ENABLED (Checkout(t) \/ ProcessPayment(t) \/ Health(t))
                  /\ (phase = "listening" /\ req[t].pc = "awaitEvents" /\ req[t].kind = "pay") =>
                        ENABLED PaymentLookupResumes(t))
  /\ [][\A s \in Connections : req[s].pc = "hung" => req'[s] = req[s]]_vars

\* the payment of connection 1 hangs on its catalog GET while connection 2
\* has been answered with a charge
C24_Witness ==
  /\ req[1].kind = "pay" /\ req[1].pc = "hung" /\ req[1].gets = 1
  /\ req[2].kind = "pay" /\ req[2].pc = "done" /\ req[2].resp.outcome = "charged"

\* a request of a handler that is suspended at an await
InFlight(r) == r.pc \in {"awaitEvents", "awaitCharge", "hung"}

\* what the outcome of a request may depend on: its own inputs, the result of
\* its own catalog GET and the result of its own processor call
OwnInputs(r) == <<r.kind, r.eventId, r.customPay, r.body, r.fetched, r.charge>>

\* C25: under every interleaving of requests, a step of a request handler
\* writes no process-wide variable (configuration cache, processor client,
\* publishable key, environment), leaves the requests in flight on the other
\* connections as they are, and answers as the same request with the same
\* catalog result and the same processor result was answered on another
\* connection
C25_RequestsShareNothing ==
  [][/\ req' # req =>
          UNCHANGED <<env, CONFIG, configGets, configWrites, loadOutcome, call,
                      stripe, stripePublishableKey, phase>>
     /\ \A s, t \in Connections :
          (s # t /\ req'[s] # req[s] /\ req'[s].pc # "idle" /\ InFlight(req[t])) =>
             req'[t] = req[t]
     /\ \A s, t \in Connections :
          (/\ s # t
           /\ req[s].pc # "done" /\ req'[s].pc = "done"
           /\ req[t].pc = "done"
           /\ OwnInputs(req'[s]) = OwnInputs(req[t])) => req'[s].resp = req[t].resp]_vars

\* a checkout on connection 2 was answered from the catalog as served now
\* while the payment on connection 1, which read the catalog as served
\* before, is still waiting for the processor
C25_Witness ==
  /\ req[1].kind = "pay" /\ req[1].pc = "awaitCharge" /\ req[1].fetched.events = CatalogB
  /\ req[2].kind = "checkout" /\ req[2].pc = "done" /\ req[2].resp.outcome = "page"
  /\ req[2].fetched.events = CatalogA

\* C26: whenever a request handler runs or has run, the configuration cache
\* is set and the processor client is established, and every health check
\* reports the configuration as loaded
C26_HandlersSeeLoadedConfig ==
  \A s \in Connections :
     req[s].pc # "idle" =>
        /\ ~ConfigUnset(CONFIG)
        /\ stripe # "null"
        /\ req[s].kind = "health" => req[s].resp.info = "loaded"

\* C27: a payment request invokes stripe.charges.create at most once, also
\* after it raised or returned a status other than 'succeeded', requests of
\* the other kinds never invoke it, and a response with success = true is
\* sent only by a request that invoked it and got status 'succeeded'
C27_ChargeAtMostOnce ==
  \A s \in Connections :
     /\ req[s].charges <= 1
     /\ req[s].kind # "pay" => req[s].charges = 0
     /\ req[s].pc = "awaitCharge" => req[s].charges = 1
     /\ (req[s].kind = "pay" /\ req[s].pc = "done" /\ req[s].resp.success) =>
           /\ req[s].charges = 1
           /\ ~req[s].charge.raised
           /\ req[s].charge.status = "succeeded"

\* the processor returned a charge that is pending: the request was answered
\* without success after its one invocation
C27_Witness ==
  \E s \in Connections :
     /\ req[s].kind = "pay" /\ req[s].pc = "done"
     /\ req[s].charges = 1
     /\ ~req[s].charge.raised /\ req[s].charge.status = "pending"
     /\ ~req[s].resp.success

\* C28: /process-payment checks in the order missing fields, minimum amount,
\* catalog, processor, and the first check that fails answers: a request with
\* a missing field, or else with an amount below the minimum, is answered
\* with that error without any catalog GET or processor call (so a too-small
\* amount for an unknown eventId is 'Amount too small', not the 404); the
\* 404 and the processor call come only after both checks passed and the
\* catalog was fetched
C28_ChecksInFixedOrder ==
  \A s \in Connections :
     req[s].kind = "pay" =>
        /\ MissingFields(req[s].body) =>
              /\ req[s].pc = "done" /\ req[s].resp.outcome = "missingFields"
              /\ req[s].gets = 0 /\ req[s].charges = 0
        /\ (~MissingFields(req[s].body) /\ TooSmall(req[s].body)) =>
              /\ req[s].pc = "done" /\ req[s].resp.outcome = "amountTooSmall"
              /\ req[s].resp.error = "Amount too small"
              /\ req[s].gets = 0 /\ req[s].charges = 0
        /\ req[s].gets <= 1
        /\ req[s].gets = 1 => (~MissingFields(req[s].body) /\ ~TooSmall(req[s].body))
        /\ (req[s].pc = "done" /\ req[s].resp.outcome = "eventNotFound") =>
              /\ req[s].gets = 1 /\ req[s].fetched.outcome = "ok" /\ req[s].charges = 0
        /\ req[s].charges = 1 =>
              /\ req[s].gets = 1 /\ req[s].fetched.outcome = "ok"
              /\ req[s].event.eventId = req[s].body.eventId

\* a payment of 49 for an event no catalog has was answered 'Amount too
\* small' without a catalog GET
C28_Witness ==
  \E s \in Connections :
     /\ req[s].kind = "pay" /\ req[s].pc = "done"
     /\ req[s].body.eventId = "RS2025XX" /\ req[s].body.amount = Num(49 * Scale)
     /\ req[s].resp.outcome = "amountTooSmall"
     /\ req[s].gets = 0

\* C29: when every catalog GET and every processor call settles, every
\* request that is waiting at an await is eventually answered, and in every
\* state a request has been sent exactly one response if it is answered and
\* none before (requests answered without an await are answered in the step
\* they arrive in)
C29_EveryRequestAnsweredOnce ==
  /\ \A s \in 1..MaxConnections :
        (req[s].pc \in {"awaitEvents", "awaitCharge"}) ~> (req[s].pc = "done" /\ req[s].sent = 1)
  /\ [](\A s \in Connections :
           /\ req[s].pc \in {"idle", "awaitEvents", "awaitCharge", "done"}
           /\ req[s].pc = "done" => (req[s].sent = 1 /\ req[s].resp.status # 0)
           /\ req[s].pc # "done" => (req[s].sent = 0 /\ req[s].resp = NoResp))

\* a payment whose catalog GET failed was answered, once, by the catch
C29_Witness ==
  \E s \in Connections :
     /\ req[s].kind = "pay" /\ req[s].pc = "done" /\ req[s].sent = 1
     /\ req[s].fetched.outcome = "neterr"
     /\ req[s].resp.outcome = "paymentError"

\* C30: once the configuration GET has given a body that parses as JSON,
\* initialization does not end in the fatal exit, the cache is set, and the
\* processor keys are the body's, else the environment's, else the placeholders
C30_ParseableConfigInitializes ==
  loadOutcome = "ok" =>
     /\ phase # "exited"
     /\ ~ConfigUnset(CONFIG)
     /\ stripe = OrElse(configSource.value.secretKey,
                   OrElse(env.STRIPE_SECRET_KEY, "sk_test_fallback"))
     /\ stripePublishableKey = OrElse(configSource.value.publishableKey,
                                 OrElse(env.STRIPE_PUBLISHABLE_KEY, "pk_test_fallback"))

=============================================================================
